---- MODULE Spec2Model ----
(***************************************************************************)
(* Model of ni_usb6009_logger/cli.py, logging mode with optional ignition: *)
(* main() from the creation of the DO task to the final cleanup.           *)
(*                                                                         *)
(* Time.  `clock' is time.time() in ticks; it starts at StartTime > 0, as  *)
(* the epoch time it stands for is never 0.  Time passes where main()      *)
(* waits: SleepTicks in every sleep of the arming wait, 0..MaxRead ticks in *)
(* every blocking chunk read, and 0..MaxStartGap ticks between the reading *)
(* of t0 and the first loop head (two calls of time.time() with console    *)
(* output between them); all other statements take no time.                *)
(*                                                                         *)
(* The values of time.time() are doubles.  In the years 2004 to 2038 they   *)
(* are 2^-22 s apart: this distance is one ulp here, and a second is       *)
(* UlpPerSecond ulps.  A tick is UlpPerTick ulps (1/64 s), so that every   *)
(* time counted in ticks is a double and the sums and differences of such  *)
(* times are exact.  `clock' counts from a whole second of that period     *)
(* (the epoch second): time.time() = epoch second + clock ticks.           *)
(*                                                                         *)
(* --pulse-seconds and --duration are floats of any size and sign.  They   *)
(* are counted in quarters of an ulp (ArgPerUlp to the ulp), so that a     *)
(* positive value below half an ulp, which a sum with a time rounds away,  *)
(* is among them; a time in ticks is Ticks(t) of these units.              *)
(*                                                                         *)
(* A row's timestamp chunk_start + i / rate is a sum of doubles, rounded   *)
(* to a whole number of ulps; it is printed cut to whole microseconds.     *)
(* Row timestamps are kept as they are printed, in microseconds since the  *)
(* epoch second.                                                           *)
(***************************************************************************)
EXTENDS Integers, Sequences, FiniteSets, TLC

\* ---------------------------------------------------------------- bounds
MaxStabilize == 1    \* stabilize_seconds is 0..MaxStabilize ticks
MaxPulse == 1        \* pulse_seconds is 0, 2^-24 s or 1..MaxPulse ticks
MaxDuration == 2     \* duration is None, negative, 2^-24 s or 1..MaxDuration ticks
MaxStartGap == 1     \* ticks between the reading of t0 and the first loop head
MaxChunks == 2       \* chunk reads per run
MaxRead == 1         \* ticks one chunk read may block
MaxFaults == 1       \* injected failures per run
ChunkSize == 2       \* args.chunk
UlpPerTick == 65536  \* ulps per tick: a tick is 1/64 s
MaxLine == 2         \* digital line numbers are 0..MaxLine
MaxTokens == 2       \* tokens of a digital line spec
MaxWindow2 == 3      \* calib_window is 0..MaxWindow2 half-seconds
MaxRateHw == 2       \* calib_sample_rate is 1..MaxRateHw Hz
MaxFeed == 4         \* samples fed to a calibration history
FloatBits == 3       \* significant bits of a float of the model (53 in a run)
MaxLongRead == 2     \* ticks one chunk read may block, in the runs with long reads

\* ------------------------------------------------------ program constants
StartTime == 1       \* time.time() when main() starts, in ticks after the epoch second
UlpPerSecond == 4194304   \* 2^22: the doubles of time.time() are 2^-22 s apart
ArgPerUlp == 4            \* float arguments are counted in quarters of an ulp
MicroPerSecond == 1000000 \* the factor 1e6 of the printed microseconds
MicroPerUlpNum == 15625   \* MicroPerSecond / UlpPerSecond in lowest terms:
MicroPerUlpDen == 65536   \* an ulp is 15625/65536 of a microsecond
ShowUnit == 2        \* the last printed decimal (1e-6) in quanta of the floats

\* Python truthiness of an optional float: None and 0.0 are both false.
\* An optional value is <<>> (None) or <<v>>.
Truthy(opt) == opt # <<>> /\ opt[1] # 0

\* ------------------------------------------------------------------ state
VARIABLES
    cfg,           \* the parsed arguments (args), fixed for the run
    pc,            \* position of main()
    clock,         \* time.time(), in ticks after the epoch second
    handler,       \* installed SIGINT handler: "default", "arm", "log"
    stop_arm,      \* flag set by _arm_sigint
    stop,          \* flag set by _sigint
    do_task,       \* "none", "open", "closed"
    ai_task,       \* "none", "created", "running", "stopped", "closed"
    di_task,       \* "none", "created", "running", "stopped", "closed"
    writer,        \* "none", "open", "closed"
    out,           \* levels of the two DO lines <<buzzer, igniter>>
    t_end,         \* arming deadline
    t0,            \* acquisition start
    now,           \* time.time() taken at the head of the iteration
    fire_at,       \* optional: t0 + stabilize_seconds
    fire_until,    \* optional: end of the pulse, in the unit of the float arguments
    fired,         \* igniter-ON already handled
    ai_buf,        \* ordinal of the chunk held by ai_buf (0 = none)
    di_vals,       \* digital snapshot of the current chunk
    chunk_start,   \* time.time() taken after the reads of the chunk
    i,             \* index of the row loop
    samples_total, \* running sample counter
    rows,          \* rows handed to writer.write_row, in order
    exc,           \* exception propagating out of main(), or "none"
    writes,        \* history: every do_task.write attempted
    sigArm,        \* history: a SIGINT was handled by _arm_sigint
    faults,        \* history: the injected failures
    d_spec,        \* expand_digital_spec: the tokens of its argument
    d_called,      \* expand_digital_spec: it has returned
    d_out,         \* expand_digital_spec: the list it returned
    c_args,        \* run_calibration: its arguments
    c_hist,        \* run_calibration: hist, one deque per channel
    c_avgs,        \* run_calibration: avgs of this iteration, <<>> before
    c_shown,       \* run_calibration: the averages as printed
    c_fed          \* history: all samples fed, per channel

vars == <<cfg, pc, clock, handler, stop_arm, stop, do_task, ai_task, di_task,
          writer, out, t_end, t0, now, fire_at, fire_until, fired, ai_buf,
          di_vals, chunk_start, i, samples_total, rows, exc, writes, sigArm,
          faults, d_spec, d_called, d_out, c_args, c_hist, c_avgs, c_shown,
          c_fed>>

hw      == <<do_task, ai_task, di_task, writer, out, writes>>
arming  == <<handler, stop_arm, t_end>>
timing  == <<t0, now, fire_at, fire_until, fired>>
chunkst == <<ai_buf, di_vals, chunk_start, i, samples_total, rows>>
sigs    == <<sigArm>>
digital == <<d_spec, d_called, d_out>>
calib   == <<c_args, c_hist, c_avgs, c_shown, c_fed>>
util    == <<digital, calib>>
prog    == <<cfg, pc, clock, hw, arming, stop, timing, chunkst, exc, sigs, faults>>

\* The sample rates of the runs, in Hz: 128 Hz, whose period 1/rate is a
\* whole number of ulps (and a chunk of two samples lasts one tick), and
\* 100 Hz, whose period is a whole number of microseconds but not of ulps.
Rates == {128, 100}

\* num/den rounded to a whole number, ties to the even one: the rounding of
\* a double sum, counted in ulps.
RoundHalfEven(num, den) ==
    LET lower == num \div den
        rem2  == 2 * (num - lower * den)
    IN  IF rem2 < den THEN lower
        ELSE IF rem2 > den THEN lower + 1
        ELSE IF lower % 2 = 0 THEN lower ELSE lower + 1

\* A time of t ticks, in the unit of the float arguments.
ArgPerTick == ArgPerUlp * UlpPerTick
Ticks(t) == t * ArgPerTick

\* The double nearest to t + a, for a time of t ticks and a float a: the sum
\* of line 545, in the unit of the float arguments.
FloatSum(t, a) == ArgPerUlp * RoundHalfEven(Ticks(t) + a, ArgPerUlp)

\* --pulse-seconds (line 193, any float; here none below 0): 0, a positive
\* value below half an ulp (a quarter of an ulp, 2^-24 s), whole ticks.
PulseValues == {0, 1} \cup {Ticks(k) : k \in 1..MaxPulse}

\* --duration (line 165, any float): None (0 stands for it, both are false),
\* a negative value, a positive value below a tick (2^-24 s), whole ticks.
DurationValues == {-1, 0, 1} \cup {Ticks(k) : k \in 1..MaxDuration}

\* The arguments of a run: --arm-seconds is one tick and stabilize_seconds
\* is in whole ticks.  Without --ignite the ignition times are never read, so
\* they are left at their least value.  The rate is read by the row
\* timestamps only, never by the ignition: the runs at 100 Hz are runs
\* without ignition.
Configs ==
    {c \in [ignite : BOOLEAN,
            arm_seconds : {1},
            stabilize_seconds : 0..MaxStabilize,
            pulse_seconds : PulseValues,
            duration : DurationValues,
            has_di : BOOLEAN,                 \* di_lines is not empty
            chunk : {ChunkSize},
            rate : Rates] :                   \* args.rate in Hz
        /\ c.ignite \/ (c.stabilize_seconds = 0 /\ c.pulse_seconds = 0)
        /\ c.rate = 100 => ~c.ignite}

\* main() is about to start, with arguments out of C.
MainInit(C) ==
    /\ cfg \in C
    /\ pc = "start"
    /\ clock = StartTime
    /\ handler = "default"
    /\ stop_arm = FALSE
    /\ stop = FALSE
    /\ do_task = "none"
    /\ ai_task = "none"
    /\ di_task = "none"
    /\ writer = "none"
    /\ out = <<FALSE, FALSE>>
    /\ t_end = 0
    /\ t0 = 0
    /\ now = 0
    /\ fire_at = <<>>
    /\ fire_until = <<>>
    /\ fired = FALSE
    /\ ai_buf = 0
    /\ di_vals = <<>>
    /\ chunk_start = 0
    /\ i = 0
    /\ samples_total = 0
    /\ rows = <<>>
    /\ exc = "none"
    /\ writes = <<>>
    /\ sigArm = FALSE
    /\ faults = <<>>

\* expand_digital_spec is not under study.
DigitalIdle == d_spec = <<>> /\ d_called = FALSE /\ d_out = <<>>

\* run_calibration is not under study.
CalibIdle ==
    /\ c_args = <<>> /\ c_hist = <<>> /\ c_avgs = <<>> /\ c_shown = <<>>
    /\ c_fed = <<>>

Init == MainInit(Configs) /\ DigitalIdle /\ CalibIdle

\* ------------------------------------------------------------- environment
\* Failures of the hardware, the driver and the file system are injected.
CanFail == Len(faults) < MaxFaults
Outcomes == IF CanFail THEN BOOLEAN ELSE {TRUE}
Inject(ok, kind) == IF ok THEN faults ELSE Append(faults, kind)

\* do_task.write(val): raises on a closed task; otherwise it may be failed.
\* A write that raises leaves the lines as they were.
WriteOutcomes == IF do_task = "open" THEN Outcomes ELSE {FALSE}
\* The record of a write notes the levels the lines had before it (prev), the
\* time and the loop iteration (0 outside the loop).
WriteRec(val, ok, site) ==
    [v |-> val, ok |-> ok, site |-> site, t |-> clock, iter |-> 0, prev |-> out]
InjectWrite(ok) ==
    IF ok \/ do_task # "open" THEN faults ELSE Append(faults, "do_write")

\* SIGINT is delivered (Ctrl+C).  What it does depends on the handler that is
\* installed: the default handler raises KeyboardInterrupt at the current
\* position of main(), _arm_sigint sets stop_arm, _sigint sets stop.
InsideTry == pc \notin {"start", "pre_try"}

\* KeyboardInterrupt is raised between two statements and propagates.  Outside
\* the try of line 435 no cleanup follows; inside it the finally of line 613
\* runs next, and raised in that finally it leaves main() at once.
KiPropagates ==
    /\ exc' = "KeyboardInterrupt"
    /\ pc' = IF pc = "finally" THEN "done"
             ELSE IF InsideTry THEN "finally" ELSE "done"
    /\ UNCHANGED <<do_task, out, writes, faults>>

\* KeyboardInterrupt inside lines 386-394, which catch Exception only: the DO
\* task has been created and is left open, with the write of line 392 made or
\* not yet made.
KiDOCreate ==
    /\ pc = "start" /\ cfg.ignite
    /\ \E written \in BOOLEAN :
         /\ writes' = IF written
                      THEN Append(writes, WriteRec(<<FALSE, FALSE>>, TRUE, "start"))
                      ELSE writes
         /\ out' = IF written THEN <<FALSE, FALSE>> ELSE out
    /\ do_task' = "open"
    /\ exc' = "KeyboardInterrupt"
    /\ pc' = "done"
    /\ UNCHANGED faults

\* KeyboardInterrupt inside the except block of lines 395-400, after a failure
\* in lines 386-394 (the failed step is injected as in DOCreate).  Raised at
\* line 396 or 397 it propagates with the task, if one was created, still
\* open.  Raised inside the try of line 398 it is swallowed by the bare except
\* of line 399, close() being skipped, and sys.exit(3) follows.  Raised after
\* close() and before line 400 it propagates with the task closed.
KiDOExcept ==
    /\ pc = "start" /\ cfg.ignite /\ CanFail
    /\ \E step \in {"create", "add_do_chan", "write", "verify"} :
       \E at \in {"before_close", "in_close", "after_close"} :
         /\ step = "create" => at = "before_close"
         /\ writes' = IF step \in {"create", "add_do_chan"} THEN writes
                      ELSE Append(writes, WriteRec(<<FALSE, FALSE>>, step # "write", "start"))
         /\ out' = IF step = "verify" THEN <<FALSE, FALSE>> ELSE out
         /\ do_task' = IF step = "create" THEN do_task
                       ELSE IF at = "after_close" THEN "closed" ELSE "open"
         /\ exc' = IF at = "in_close" THEN "SystemExit3" ELSE "KeyboardInterrupt"
         /\ faults' = Append(faults, "do_" \o step)
    /\ pc' = "done"

\* KeyboardInterrupt in the abort branch of lines 462-469.  Raised inside the
\* try of line 465 it is swallowed by the bare except: the write is skipped
\* and the task closed.  Raised after the write it either propagates (between
\* the statements) or is swallowed by the bare except of line 468, close()
\* being skipped: main() returns with the DO task open.  Raised after close()
\* and before the return it propagates with the task closed.
KiAbort ==
    /\ pc = "arm_check" /\ stop_arm
    /\ pc' = "finally"
    /\ \/ /\ do_task' = "closed"
          /\ UNCHANGED <<out, writes, faults, exc>>
       \/ \E ok \in WriteOutcomes : \E swallowed \in BOOLEAN :
             /\ writes' = Append(writes, WriteRec(<<FALSE, FALSE>>, ok, "abort"))
             /\ out' = IF ok THEN <<FALSE, FALSE>> ELSE out
             /\ faults' = InjectWrite(ok)
             /\ exc' = IF swallowed THEN exc ELSE "KeyboardInterrupt"
             /\ UNCHANGED do_task
       \/ \E ok \in WriteOutcomes :
             /\ writes' = Append(writes, WriteRec(<<FALSE, FALSE>>, ok, "abort"))
             /\ out' = IF ok THEN <<FALSE, FALSE>> ELSE out
             /\ faults' = InjectWrite(ok)
             /\ exc' = "KeyboardInterrupt"
             /\ do_task' = "closed"

\* KeyboardInterrupt in the finally of lines 613-621, with a DO task.  Raised
\* inside the try of line 616 it is swallowed: the write is skipped and the
\* task closed.  Raised after the write it either propagates or is swallowed
\* by the bare except of line 621, close() being skipped: the DO task stays
\* as it is.  Raised after close() it propagates with the task closed.
KiFinally ==
    /\ pc = "finally" /\ do_task # "none"
    /\ pc' = "done"
    /\ \/ /\ do_task' = "closed"
          /\ UNCHANGED <<out, writes, faults, exc>>
       \/ \E ok \in WriteOutcomes : \E swallowed \in BOOLEAN :
             /\ writes' = Append(writes, WriteRec(<<FALSE, FALSE>>, ok, "final"))
             /\ out' = IF ok THEN <<FALSE, FALSE>> ELSE out
             /\ faults' = InjectWrite(ok)
             /\ exc' = IF swallowed THEN exc ELSE "KeyboardInterrupt"
             /\ UNCHANGED do_task
       \/ \E ok \in WriteOutcomes :
             /\ writes' = Append(writes, WriteRec(<<FALSE, FALSE>>, ok, "final"))
             /\ out' = IF ok THEN <<FALSE, FALSE>> ELSE out
             /\ faults' = InjectWrite(ok)
             /\ exc' = "KeyboardInterrupt"
             /\ do_task' = "closed"

Sigint ==
    /\ pc # "done"
    /\ sigArm' = (sigArm \/ handler = "arm")
    /\ CASE handler = "arm" ->
              /\ stop_arm' = TRUE
              /\ UNCHANGED <<pc, stop, exc, do_task, out, writes, faults>>
         [] handler = "log" ->
              /\ stop' = TRUE
              /\ UNCHANGED <<pc, stop_arm, exc, do_task, out, writes, faults>>
         [] OTHER ->
              /\ UNCHANGED <<stop, stop_arm>>
              /\ KiPropagates \/ KiDOCreate \/ KiDOExcept \/ KiAbort \/ KiFinally
    /\ UNCHANGED <<util, cfg, clock, ai_task, di_task, writer, handler,
                   t_end, timing, chunkst>>

\* ------------------------------------------------------------------ main()
\* Lines 383-400: the DO task is created first and both lines are forced LOW.
\* A failure closes the task, when nidaqmx.Task() has returned one (step
\* "create" is the failure of that call), and exits with status 3.
StartLevelsBuzzer == <<TRUE, FALSE>>
StartLevels == <<FALSE, FALSE>>
DOCreate ==
    /\ pc = "start"
    /\ IF ~cfg.ignite
         THEN /\ pc' = "pre_try"
              /\ UNCHANGED <<do_task, out, writes, exc, faults>>
         ELSE \E step \in {"ok"} \cup (IF CanFail THEN {"create", "add_do_chan", "write", "verify"} ELSE {}) :
              /\ writes' = IF step \in {"create", "add_do_chan"} THEN writes
                           ELSE Append(writes, WriteRec(StartLevels, step # "write", "start"))
              /\ out' = IF step \in {"ok", "verify"} THEN StartLevels ELSE out
              /\ do_task' = IF step = "ok" THEN "open"
                            ELSE IF step = "create" THEN do_task ELSE "closed"
              /\ pc' = IF step = "ok" THEN "pre_try" ELSE "done"
              /\ exc' = IF step = "ok" THEN exc ELSE "SystemExit3"
              /\ faults' = IF step = "ok" THEN faults ELSE Append(faults, "do_" \o step)
    /\ UNCHANGED <<util, cfg, clock, ai_task, di_task, writer, arming, stop, timing, chunkst, sigs>>

\* Lines 417-435: output path and banner, then the try block is entered.
EnterTry ==
    /\ pc = "pre_try"
    /\ pc' = IF do_task # "none" THEN "arm_entry" ELSE "install_sigint"
    /\ UNCHANGED <<util, cfg, clock, hw, arming, stop, timing, chunkst, exc, sigs, faults>>

\* Lines 437-445: stop_arm is cleared and _arm_sigint installed.
ArmInstall ==
    /\ pc = "arm_entry"
    /\ stop_arm' = FALSE
    /\ handler' = "arm"
    /\ pc' = "arm_on"
    /\ UNCHANGED <<util, cfg, clock, hw, t_end, stop, timing, chunkst, exc, sigs, faults>>

\* Lines 447-449: buzzer ON, the arming deadline is set.
ArmOnLevelsSilent == <<FALSE, FALSE>>
ArmOnLevels == <<TRUE, FALSE>>
ArmBuzzerOn ==
    /\ pc = "arm_on"
    /\ \E ok \in WriteOutcomes :
         /\ writes' = Append(writes, WriteRec(ArmOnLevels, ok, "arm_on"))
         /\ out' = IF ok THEN ArmOnLevels ELSE out
         /\ faults' = InjectWrite(ok)
         /\ exc' = IF ok THEN exc ELSE "DaqError"
         /\ t_end' = IF ok THEN clock + cfg.arm_seconds ELSE t_end
         /\ pc' = IF ok THEN "arm_wait" ELSE "arm_finally"
    /\ UNCHANGED <<util, cfg, clock, do_task, ai_task, di_task, writer, handler, stop_arm,
                   stop, timing, chunkst, sigs>>

\* Line 454: time.sleep(0.1) lasts a tenth of a second or more; the clock is
\* read next the least whole number of ticks later.
SleepTicks == (UlpPerSecond + 10 * UlpPerTick - 1) \div (10 * UlpPerTick)

\* Lines 450-454: one iteration of the arming wait: the countdown is printed
\* (the console write may raise) and the loop sleeps.
ArmWaitIter ==
    /\ pc = "arm_wait"
    /\ clock < t_end /\ ~stop_arm
    /\ \E ok \in Outcomes :
         /\ faults' = Inject(ok, "stdout")
         /\ exc' = IF ok THEN exc ELSE "OSError"
         /\ pc' = IF ok THEN "arm_wait" ELSE "arm_finally"
         /\ clock' = IF ok THEN clock + SleepTicks ELSE clock
    /\ UNCHANGED <<util, cfg, hw, arming, stop, timing, chunkst, sigs>>

\* Line 450: the arming wait ends, by deadline or by stop_arm.
ArmWaitExit ==
    /\ pc = "arm_wait"
    /\ ~(clock < t_end /\ ~stop_arm)
    /\ pc' = "arm_finally"
    /\ UNCHANGED <<util, cfg, clock, hw, arming, stop, timing, chunkst, exc, sigs, faults>>

\* Lines 455-460: the finally of the arming phase silences the buzzer and
\* restores the previous (default) handler.  If the write raises, the rest of
\* the block is skipped and the exception propagates.  An exception that left
\* the arming try is still pending when line 460 returns.
ArmOffLevelsKeepBuzzer == <<out[1], FALSE>>
ArmOffLevels == <<FALSE, FALSE>>
ArmFinally ==
    /\ pc = "arm_finally"
    /\ \E ok \in WriteOutcomes :
         /\ writes' = Append(writes, WriteRec(ArmOffLevels, ok, "arm_off"))
         /\ out' = IF ok THEN ArmOffLevels ELSE out
         /\ faults' = InjectWrite(ok)
         /\ handler' = IF ok THEN "default" ELSE handler
         /\ exc' = IF ok THEN exc ELSE "DaqError"
         /\ pc' = IF ~ok THEN "finally"
                  ELSE IF exc = "none" THEN "arm_check" ELSE "arm_reraise"
    /\ UNCHANGED <<util, cfg, clock, do_task, ai_task, di_task, writer, stop_arm, t_end,
                   stop, timing, chunkst, sigs>>

\* End of the finally of line 455: the exception that left the arming try of
\* line 447 is raised again and leaves the try of line 435.
ArmReraise ==
    /\ pc = "arm_reraise"
    /\ pc' = "finally"
    /\ UNCHANGED <<util, cfg, clock, hw, arming, stop, timing, chunkst, exc, sigs, faults>>

\* Lines 462-469: an aborted arming writes LOW again, closes the DO task and
\* returns; the return runs the finally of line 613.
AbortRequestedNever == FALSE
AbortRequested == stop_arm
ArmCheck ==
    /\ pc = "arm_check"
    /\ IF AbortRequested
         THEN \E ok \in WriteOutcomes :
              /\ writes' = Append(writes, WriteRec(<<FALSE, FALSE>>, ok, "abort"))
              /\ out' = IF ok THEN <<FALSE, FALSE>> ELSE out
              /\ faults' = InjectWrite(ok)
              /\ do_task' = "closed"
              /\ pc' = "finally"
         ELSE /\ pc' = "install_sigint"
              /\ UNCHANGED <<writes, out, faults, do_task>>
    /\ UNCHANGED <<util, cfg, clock, ai_task, di_task, writer, arming, stop, timing,
                   chunkst, exc, sigs>>

\* Lines 613-621: the final cleanup: DO lines LOW (errors ignored), DO task
\* closed (errors ignored).
CleanupLevelsBuzzer == <<TRUE, FALSE>>
CleanupLevelsKeep == out
CleanupLevels == <<FALSE, FALSE>>
Finally ==
    /\ pc = "finally"
    /\ IF do_task # "none"
         THEN \E ok \in WriteOutcomes :
              /\ writes' = Append(writes, WriteRec(CleanupLevels, ok, "final"))
              /\ out' = IF ok THEN CleanupLevels ELSE out
              /\ faults' = InjectWrite(ok)
              /\ do_task' = "closed"
         ELSE UNCHANGED <<writes, out, faults, do_task>>
    /\ pc' = "done"
    /\ UNCHANGED <<util, cfg, clock, ai_task, di_task, writer, arming, stop, timing,
                   chunkst, exc, sigs>>

\* Lines 471-478: stop is cleared and _sigint installed (never restored).
InstallSigint ==
    /\ pc = "install_sigint"
    /\ stop' = FALSE
    /\ handler' = "log"
    /\ pc' = "open_writer"
    /\ UNCHANGED <<util, cfg, clock, hw, stop_arm, t_end, timing, chunkst, exc, sigs, faults>>

\* Lines 480-486: the row sink is opened; the counters start at 0.
OpenWriter ==
    /\ pc = "open_writer"
    /\ \E ok \in Outcomes :
         /\ faults' = Inject(ok, "writer_open")
         /\ writer' = IF ok THEN "open" ELSE writer
         /\ exc' = IF ok THEN exc ELSE "OSError"
         /\ pc' = IF ok THEN "ai_create" ELSE "finally"
    /\ samples_total' = 0
    /\ UNCHANGED <<util, cfg, clock, do_task, ai_task, di_task, out, writes, arming, stop,
                   timing, ai_buf, di_vals, chunk_start, i, rows, sigs>>

\* Lines 488-495: the AI task is created inside a with block, configured and
\* verified.  An exception leaves the with block, which closes the task; when
\* nidaqmx.Task() itself raises (step "ai_create") there is no task.
AICreate ==
    /\ pc = "ai_create"
    /\ \E step \in {"ok"} \cup (IF CanFail THEN {"ai_create", "ai_config"} ELSE {}) :
         /\ faults' = IF step = "ok" THEN faults ELSE Append(faults, step)
         /\ ai_task' = IF step = "ok" THEN "created"
                       ELSE IF step = "ai_create" THEN ai_task ELSE "closed"
         /\ exc' = IF step = "ok" THEN exc ELSE "DaqError"
         /\ pc' = IF step = "ok" THEN "di_create" ELSE "finally"
    /\ UNCHANGED <<util, cfg, clock, do_task, di_task, writer, out, writes, arming, stop,
                   timing, chunkst, sigs>>

\* Lines 497-504: the DI task, when DI lines are given, is created outside any
\* with block, configured and verified.  When nidaqmx.Task() itself raises
\* (step "di_create") there is no DI task.
DICreate ==
    /\ pc = "di_create"
    /\ IF cfg.has_di
         THEN \E step \in {"ok"} \cup (IF CanFail THEN {"di_create", "di_config"} ELSE {}) :
              /\ faults' = IF step = "ok" THEN faults ELSE Append(faults, step)
              /\ di_task' = IF step = "di_create" THEN di_task ELSE "created"
              /\ ai_task' = IF step = "ok" THEN ai_task ELSE "closed"
              /\ exc' = IF step = "ok" THEN exc ELSE "DaqError"
              /\ pc' = IF step = "ok" THEN "header" ELSE "finally"
         ELSE /\ pc' = "header"
              /\ UNCHANGED <<faults, di_task, ai_task, exc>>
    /\ UNCHANGED <<util, cfg, clock, do_task, writer, out, writes, arming, stop, timing,
                   chunkst, sigs>>

\* Lines 506-510: the header row is written.
WriteHeader ==
    /\ pc = "header"
    /\ \E ok \in Outcomes :
         /\ faults' = Inject(ok, "write_header")
         /\ ai_task' = IF ok THEN ai_task ELSE "closed"
         /\ exc' = IF ok THEN exc ELSE "OSError"
         /\ pc' = IF ok THEN "start_tasks" ELSE "finally"
    /\ UNCHANGED <<util, cfg, clock, do_task, di_task, writer, out, writes, arming, stop,
                   timing, chunkst, sigs>>

\* Lines 512-532: the tasks are started, t0 is taken and the ignition timing
\* flags are set; the time that passes before line 534 reads the clock for the
\* first time is counted here.
StartTasks ==
    /\ pc = "start_tasks"
    /\ \E step \in {"ok"} \cup (IF CanFail THEN {"ai_start"} \cup (IF di_task # "none" THEN {"di_start"} ELSE {}) ELSE {}) :
         /\ faults' = IF step = "ok" THEN faults ELSE Append(faults, step)
         /\ ai_task' = IF step = "ok" THEN "running" ELSE "closed"
         /\ di_task' = IF step = "ok" /\ di_task # "none" THEN "running" ELSE di_task
         /\ exc' = IF step = "ok" THEN exc ELSE "DaqError"
         /\ pc' = IF step = "ok" THEN "loop_head" ELSE "finally"
         /\ t0' = IF step = "ok" THEN clock ELSE t0
         /\ \E gap \in 0..MaxStartGap :
              clock' = IF step = "ok" THEN clock + gap ELSE clock
         /\ fire_at' = IF step = "ok" /\ do_task # "none"
                         THEN <<clock + cfg.stabilize_seconds>> ELSE <<>>
    /\ fired' = FALSE
    /\ fire_until' = <<>>
    /\ UNCHANGED <<util, cfg, do_task, writer, out, writes, arming, stop, now,
                   chunkst, sigs>>

\* Line 535: the duration test of the loop head, for now = clock.
DurationReachedNever == FALSE
DurationReached == cfg.duration # 0 /\ Ticks(clock - t0) >= cfg.duration

\* Line 533: the loop test, the only place where the stop flag is read.
StopObservedNever == FALSE
StopObserved == stop

\* Lines 533-536: the loop is left, by the stop flag or by the duration.
LoopExit ==
    /\ pc = "loop_head"
    /\ StopObserved \/ DurationReached
    /\ now' = IF StopObserved THEN now ELSE clock
    /\ pc' = "shutdown"
    /\ UNCHANGED <<util, cfg, clock, hw, arming, stop, t0, fire_at, fire_until, fired,
                   chunkst, exc, sigs, faults>>

\* Line 539: the igniter-ON test of an iteration whose `now' is t.
IgniteDueNoStabilize(t) == do_task # "none" /\ ~fired
IgniteDueAgain(t) == do_task # "none" /\ t >= fire_at[1]
IgniteDue(t) == do_task # "none" /\ ~fired /\ t >= fire_at[1]

\* Line 548: the igniter-OFF test, on the values lines 545-546 have left.
ReleaseDueNoDeadline(t, fired1, until1) ==
    do_task # "none" /\ fired1 /\ Truthy(until1)
ReleaseDue(t, fired1, until1) ==
    do_task # "none" /\ fired1 /\ Truthy(until1) /\ Ticks(t) >= until1[1]

\* Line 541: the levels of the igniter-ON write.
IgniteLevelsBuzzerToo == <<TRUE, TRUE>>
IgniteLevels == <<FALSE, TRUE>>

\* Lines 533-553: an iteration starts: `now' is taken and the ignition timing
\* is handled.  A failed DO write is caught and the iteration goes on.
Poll ==
    /\ pc = "loop_head"
    /\ ~StopObserved /\ ~DurationReached
    /\ now' = clock
    /\ LET on     == IgniteDue(clock)
           fired1 == fired \/ on
           until1 == IF on THEN <<FloatSum(clock, cfg.pulse_seconds)>> ELSE fire_until
           off    == ReleaseDue(clock, fired1, until1)
           left   == MaxFaults - Len(faults)
           it     == ai_buf + 1
       IN  \E ok1 \in (IF on /\ left > 0 THEN BOOLEAN ELSE {TRUE}) :
           \E ok2 \in (IF off /\ left > (IF ok1 THEN 0 ELSE 1) THEN BOOLEAN ELSE {TRUE}) :
             LET w1   == IF on
                         THEN Append(writes, [WriteRec(IgniteLevels, ok1, "ign_on")
                                                EXCEPT !.iter = it])
                         ELSE writes
                 out1 == IF on /\ ok1 THEN IgniteLevels ELSE out
                 f1   == IF ok1 THEN faults ELSE Append(faults, "do_write")
             IN  /\ writes' = IF off
                              THEN Append(w1, [WriteRec(<<FALSE, FALSE>>, ok2, "ign_off")
                                                 EXCEPT !.iter = it, !.prev = out1])
                              ELSE w1
                 /\ out' = IF off /\ ok2 THEN <<FALSE, FALSE>> ELSE out1
                 /\ faults' = IF ok2 THEN f1 ELSE Append(f1, "do_write")
                 /\ fired' = fired1
                 /\ fire_until' = IF off THEN <<>> ELSE until1
    /\ pc' = "read"
    /\ UNCHANGED <<util, cfg, clock, do_task, ai_task, di_task, writer, arming, stop,
                   t0, fire_at, chunkst, exc, sigs>>

\* Line 556: the blocking chunk read; it returns a full chunk, at once when
\* one is buffered, or times out.  It blocks for one of the times in D.
ReadFor(D) ==
    /\ pc = "read"
    /\ ai_buf < MaxChunks
    /\ \E d \in D : clock' = clock + d
    /\ \E ok \in Outcomes :
         /\ faults' = Inject(ok, "ai_read")
         /\ ai_buf' = IF ok THEN ai_buf + 1 ELSE ai_buf
         /\ ai_task' = IF ok THEN ai_task ELSE "closed"
         /\ exc' = IF ok THEN exc ELSE "DaqError"
         /\ pc' = IF ok THEN "di_read" ELSE "finally"
    /\ UNCHANGED <<util, cfg, do_task, di_task, writer, out, writes, arming, stop,
                   timing, di_vals, chunk_start, i, samples_total, rows, sigs>>

ReadChunk == ReadFor(0..MaxRead)

\* Lines 558-565: one DI snapshot for the chunk (each line coerced to 0/1),
\* then chunk_start is taken.
DIRead ==
    /\ pc = "di_read"
    /\ IF di_task # "none"
         THEN \E ok \in Outcomes :
              /\ faults' = Inject(ok, "di_read")
              /\ ai_task' = IF ok THEN ai_task ELSE "closed"
              /\ exc' = IF ok THEN exc ELSE "DaqError"
              /\ pc' = IF ok THEN "emit" ELSE "finally"
              /\ \E v \in (IF ok THEN {0, 1} ELSE {0}) :
                   di_vals' = IF ok THEN <<v>> ELSE di_vals
              /\ chunk_start' = IF ok THEN clock ELSE chunk_start
              /\ i' = IF ok THEN 0 ELSE i
         ELSE /\ di_vals' = <<>>
              /\ pc' = "emit"
              /\ chunk_start' = clock
              /\ i' = 0
              /\ UNCHANGED <<faults, ai_task, exc>>
    /\ UNCHANGED <<util, cfg, clock, do_task, di_task, writer, out, writes, arming, stop,
                   timing, ai_buf, samples_total, rows, sigs>>

\* Line 567: ts = chunk_start + i / rate, in ulps since the epoch second.
\* chunk_start (in ticks) is a whole number of ulps, i / rate is
\* k * UlpPerSecond / rate ulps, and their sum is rounded to a double.
SampleTsNoOffset(start, k) == start * UlpPerTick
SampleTs(start, k) ==
    start * UlpPerTick + RoundHalfEven(k * UlpPerSecond, cfg.rate)

\* x * num / den cut to a whole number, for 0 <= x, without passing 2^31.
FloorMulDiv(x, num, den) ==
    (x \div den) * num + (((x % den) * num) \div den)

\* Line 568: the timestamp as it is printed, in microseconds since the epoch
\* second: the whole seconds by strftime and the fraction by
\* int((ts % 1) * 1e6); ts % 1 and its product with 1e6 are exact in doubles.
FormatTs(ts) ==
    (ts \div UlpPerSecond) * MicroPerSecond
        + FloorMulDiv(ts % UlpPerSecond, MicroPerUlpNum, MicroPerUlpDen)

\* Line 570: the running sample index of sample k of the chunk.
SampleIndexInChunk(k) == k
SampleIndex(k) == samples_total + k

\* Lines 569-570: the row of sample k of the chunk in ai_buf.  The analog
\* value stands for the position of the sample in the hardware stream.
MakeRow(k) ==
    [ts    |-> FormatTs(SampleTs(chunk_start, k)),
     idx   |-> SampleIndex(k),
     ai    |-> (ai_buf - 1) * cfg.chunk + k,
     di    |-> di_vals,
     chunk |-> ai_buf]

\* Lines 566-571: one row of the chunk goes to the row sink.
EmitRow ==
    /\ pc = "emit"
    /\ i < cfg.chunk
    /\ \E ok \in Outcomes :
         /\ faults' = Inject(ok, "write_row")
         /\ rows' = IF ok THEN Append(rows, MakeRow(i)) ELSE rows
         /\ i' = IF ok THEN i + 1 ELSE i
         /\ ai_task' = IF ok THEN ai_task ELSE "closed"
         /\ exc' = IF ok THEN exc ELSE "OSError"
         /\ pc' = IF ok THEN "emit" ELSE "finally"
    /\ UNCHANGED <<util, cfg, clock, do_task, di_task, writer, out, writes, arming, stop,
                   timing, ai_buf, di_vals, chunk_start, samples_total, sigs>>

\* Line 585: the periodic flush test, on the counter already advanced: due
\* when the counter has just passed a multiple of max(int(rate * 5), 1), five
\* seconds of samples.
FlushStep == IF cfg.rate * 5 > 1 THEN cfg.rate * 5 ELSE 1
FlushDue(total) == (total % FlushStep) < cfg.chunk

\* Lines 582-597: the chunk is done: the counter advances and the sink, the
\* CSV writer of the default format, is flushed when due (the XLSX writer's
\* flush does nothing).  The progress line has no effect on the state.
EndChunk ==
    /\ pc = "emit"
    /\ i = cfg.chunk
    /\ samples_total' = samples_total + cfg.chunk
    /\ \E ok \in (IF FlushDue(samples_total + cfg.chunk) THEN Outcomes ELSE {TRUE}) :
         /\ faults' = Inject(ok, "flush")
         /\ ai_task' = IF ok THEN ai_task ELSE "closed"
         /\ exc' = IF ok THEN exc ELSE "OSError"
         /\ pc' = IF ok THEN "loop_head" ELSE "finally"
    /\ UNCHANGED <<util, cfg, clock, do_task, di_task, writer, out, writes, arming, stop,
                   timing, ai_buf, di_vals, chunk_start, i, rows, sigs>>

\* Lines 599-607 and the end of the with block: the AI task is stopped, the DI
\* task stopped and closed, the AI task closed.
StopTasks ==
    /\ pc = "shutdown"
    /\ \E step \in {"ok"} \cup (IF CanFail THEN {"ai_stop"} \cup (IF di_task # "none" THEN {"di_stop"} ELSE {}) ELSE {}) :
         /\ faults' = IF step = "ok" THEN faults ELSE Append(faults, step)
         /\ ai_task' = "closed"
         /\ di_task' = IF di_task = "none" THEN "none"
                       ELSE IF step = "ok" THEN "closed" ELSE di_task
         /\ exc' = IF step = "ok" THEN exc ELSE "DaqError"
         /\ pc' = IF step = "ok" THEN "close_writer" ELSE "finally"
    /\ UNCHANGED <<util, cfg, clock, do_task, writer, out, writes, arming, stop, timing,
                   chunkst, sigs>>

\* Lines 609-611: the row sink is closed.  CSVWriter.close closes the file in
\* a finally: the file is closed also when the close raises.
CloseWriter ==
    /\ pc = "close_writer"
    /\ \E ok \in Outcomes :
         /\ faults' = Inject(ok, "writer_close")
         /\ writer' = "closed"
         /\ exc' = IF ok THEN exc ELSE "OSError"
    /\ pc' = "finally"
    /\ UNCHANGED <<util, cfg, clock, do_task, ai_task, di_task, out, writes, arming, stop,
                   timing, chunkst, sigs>>

Next ==
    \/ Sigint
    \/ DOCreate
    \/ EnterTry
    \/ ArmInstall
    \/ ArmBuzzerOn
    \/ ArmWaitIter
    \/ ArmWaitExit
    \/ ArmFinally
    \/ ArmReraise
    \/ ArmCheck
    \/ InstallSigint
    \/ OpenWriter
    \/ AICreate
    \/ DICreate
    \/ WriteHeader
    \/ StartTasks
    \/ LoopExit
    \/ Poll
    \/ ReadChunk
    \/ DIRead
    \/ EmitRow
    \/ EndChunk
    \/ StopTasks
    \/ CloseWriter
    \/ Finally

Spec == Init /\ [][Next]_vars

\* The steps of main() itself: all of Next but the delivery of a signal.
MainStep ==
    \/ DOCreate
    \/ EnterTry
    \/ ArmInstall
    \/ ArmBuzzerOn
    \/ ArmWaitIter
    \/ ArmWaitExit
    \/ ArmFinally
    \/ ArmReraise
    \/ ArmCheck
    \/ InstallSigint
    \/ OpenWriter
    \/ AICreate
    \/ DICreate
    \/ WriteHeader
    \/ StartTasks
    \/ LoopExit
    \/ Poll
    \/ ReadChunk
    \/ DIRead
    \/ EmitRow
    \/ EndChunk
    \/ StopTasks
    \/ CloseWriter
    \/ Finally

\* The runs with a duration configured, in which main() takes its next step
\* as long as it has one (a signal may or may not come).
TimedConfigs == {c \in Configs : c.duration # 0}
InitTimed == MainInit(TimedConfigs) /\ DigitalIdle /\ CalibIdle
SpecTimed == InitTimed /\ [][Next]_vars /\ WF_vars(MainStep)

\* ------------------------------------------------------- reading the history
Last(seq) == seq[Len(seq)]

\* The absolute value of a difference.
Dist(x, y) == IF x < y THEN y - x ELSE x - y
Sites == {writes[k].site : k \in DOMAIN writes}

\* No DO write and no DO task set-up has been failed by the hardware.
DOFaultKinds == {"do_write", "do_verify", "do_add_do_chan", "do_create"}
NoDOFault == \A k \in DOMAIN faults : faults[k] \notin DOFaultKinds

\* The levels of <<buzzer, igniter>> a write leaves.
LevelLeft(w) == IF w.ok THEN w.v ELSE w.prev

\* The writes at which the igniter went false->true, and true->false.
Rises == {k \in DOMAIN writes : writes[k].ok /\ writes[k].v[2] /\ ~writes[k].prev[2]}
Falls == {k \in DOMAIN writes : writes[k].ok /\ ~writes[k].v[2] /\ writes[k].prev[2]}

\* The history of writes accounts for the levels of the lines.
HistoryMatchesLines ==
    /\ out = IF writes = <<>> THEN <<FALSE, FALSE>> ELSE LevelLeft(Last(writes))
    /\ \A k \in DOMAIN writes :
         writes[k].prev = IF k = 1 THEN <<FALSE, FALSE>> ELSE LevelLeft(writes[k - 1])

\* ------------------------------------------------------------------ claims

\* C1: with ignition enabled, whatever cancellation or error (chunk-read
\* timeout, DI read failure, row-sink failure) ended the run, once main() is
\* over both outputs are false, and when the cleanup block ran, the last
\* discrete write of the run is its write of [false, false].
C1_OutputsLowAfterCleanup ==
    (pc = "done" /\ cfg.ignite /\ NoDOFault) =>
        /\ out = <<FALSE, FALSE>>
        /\ "final" \in Sites =>
               Last(writes).site = "final" /\ Last(writes).v = <<FALSE, FALSE>>

\* C1 witness: a chunk read timed out while the igniter was on, and the run
\* ended with both lines low.
C1_Witness ==
    /\ pc = "done" /\ cfg.ignite
    /\ faults = <<"ai_read">>
    /\ writes # <<>> /\ Last(writes).site = "final" /\ Last(writes).prev = <<FALSE, TRUE>>
    /\ out = <<FALSE, FALSE>>

\* C2 (as claimed): on every exit of the logging phase, normal, cancelled or
\* errored, the AI task is closed, the DI task, when one was created, is
\* closed, and the DO task, when attached, is closed.
C2_AllTasksReleased ==
    (pc = "done" /\ ai_task # "none") =>
        /\ ai_task = "closed"
        /\ di_task \in {"none", "closed"}
        /\ do_task \in {"none", "closed"}

\* C3: the igniter is true only between the igniter-ON write and the next
\* write; only the igniter-ON write ever asks for igniter = true; and every
\* igniter-ON write is made by an iteration whose `now' is at least
\* t0 + stabilize_seconds, with the AI task started and arming over and not
\* aborted.
C3_IgniterOnlyWhileFiring ==
    NoDOFault =>
        /\ out[2] => (writes # <<>> /\ Last(writes).site = "ign_on")
        /\ \A k \in DOMAIN writes :
             /\ writes[k].v[2] => writes[k].site = "ign_on"
             /\ writes[k].site = "ign_on" =>
                  /\ writes[k].t >= t0 + cfg.stabilize_seconds
                  /\ writes[k].iter >= 1
                  /\ ai_task \in {"running", "closed"}
                  /\ ~stop_arm
                  /\ "abort" \notin Sites
                  /\ \E j \in 1..(k - 1) : writes[j].site = "arm_off" /\ writes[j].ok

\* C3 witness: the igniter is on in the middle of an iteration of a run that
\* had to wait for the stabilization deadline.
C3_Witness ==
    /\ out[2] /\ pc = "emit" /\ NoDOFault
    /\ cfg.stabilize_seconds > 0

\* C4: the buzzer is true only during arming: only the arming entry write
\* asks for buzzer = true, and the buzzer is false again on every way out of
\* the arming wait; it is never true once the acquisition loop runs.
C4_BuzzerOnlyWhileArming ==
    NoDOFault =>
        /\ out[1] => (pc \in {"arm_wait", "arm_finally"} /\ Last(writes).site = "arm_on")
        /\ \A k \in DOMAIN writes : writes[k].v[1] => writes[k].site = "arm_on"
        /\ ai_task # "none" => ~out[1]

\* C4 witness: the arming wait was left by an exception and the buzzer is off.
C4_Witness ==
    /\ pc = "finally" /\ faults = <<"stdout">>
    /\ \E k \in DOMAIN writes : writes[k].site = "arm_on" /\ writes[k].ok
    /\ ~out[1]

\* C5 (as claimed): the igniter-OFF transition is applied also when the loop
\* is stopping: once the loop has been left, the igniter is not on at a time
\* at or past its pulse deadline fire_until.
C5_ReleaseAppliedWhenStopping ==
    (NoDOFault /\ pc = "shutdown" /\ out[2] /\ Truthy(fire_until)) =>
        Ticks(clock) < fire_until[1]

\* At most one discrete write is made by one loop iteration.
OneWritePerPoll ==
    \A j, k \in DOMAIN writes :
        (j # k /\ writes[j].iter >= 1) => writes[j].iter # writes[k].iter

\* C6 (as claimed): for every stabilize_seconds >= 0 and pulse_seconds >= 0
\* an iteration makes at most one transition: igniter-ON and igniter-OFF are
\* never both written by the same iteration.
C6_OneTransitionPerPoll == OneWritePerPoll

\* No SIGINT has been delivered: each handler leaves its mark.
NotCancelled == ~stop /\ ~stop_arm /\ exc # "KeyboardInterrupt"

\* C7 (as claimed): a run with ignition enabled that is not cancelled before
\* the stabilization deadline (here: not cancelled at all, and in which
\* nothing failed) has exactly one pulse: one false->true and one true->false
\* of the igniter.
C7_ExactlyOnePulse ==
    (pc = "done" /\ cfg.ignite /\ NotCancelled /\ faults = <<>>) =>
        Cardinality(Rises) = 1 /\ Cardinality(Falls) = 1

\* C7 (amended): the igniter goes false->true at most once in a run, exactly
\* once if and only if an iteration handled the igniter-ON test at a time at
\* or after fire_at (fired is set), and it goes true->false as often by the
\* end of the run.
C7_AtMostOnePulse ==
    NoDOFault =>
        /\ Cardinality(Rises) <= 1
        /\ Cardinality(Falls) <= Cardinality(Rises)
        /\ Cardinality(Rises) = 1 <=> fired
        /\ pc = "done" => Cardinality(Falls) = Cardinality(Rises)

\* C7 witness: a finished run with one pulse.
C7_Witness ==
    /\ pc = "done" /\ NoDOFault
    /\ Cardinality(Rises) = 1 /\ Cardinality(Falls) = 1

\* C8 (as claimed): the igniter, switched on at poll time t, is switched off
\* no earlier than t + pulse_seconds.
C8_PulseLastsPulseSeconds ==
    NoDOFault =>
        \A r \in Rises : \A f \in Falls :
            Ticks(writes[f].t) >= Ticks(writes[r].t) + cfg.pulse_seconds

\* C8 (amended): the igniter is switched off either by the loop or by the
\* cleanup write.  The loop switches it off at the first iteration whose `now'
\* is at least fire_until, the double nearest to t + pulse_seconds (no
\* iteration goes on with the igniter on past that time), hence no earlier
\* than fire_until, which is t itself for a pulse_seconds that the sum rounds
\* away; the cleanup write switches it off whenever the run ends first.
C8_PulseEndsAtDeadlineOrCleanup ==
    NoDOFault =>
        \A r \in Rises :
            /\ \A f \in Falls :
                 /\ writes[f].site \in {"ign_off", "final"}
                 /\ writes[f].site = "ign_off" =>
                        Ticks(writes[f].t) >= FloatSum(writes[r].t, cfg.pulse_seconds)
            /\ (pc \in {"read", "di_read", "emit"} /\ out[2]) =>
                   Ticks(now) < FloatSum(writes[r].t, cfg.pulse_seconds)

\* C8 witness: a pulse of one tick that the loop ended.
C8_Witness ==
    /\ cfg.pulse_seconds = Ticks(1) /\ NoDOFault
    /\ \E f \in Falls : writes[f].site = "ign_off"

\* C9: once a SIGINT has been handled by the arming handler, the igniter is
\* never asked to be true, no AI or DI task is created and no row sink is
\* opened; main() goes from the arming wait to the abort and the cleanup, and
\* by then the buzzer has gone true->false and both lines are low.
C9_ArmingAbort ==
    (sigArm /\ NoDOFault) =>
        /\ pc \in {"arm_on", "arm_wait", "arm_finally", "arm_reraise", "arm_check",
                  "finally", "done"}
        /\ ai_task = "none" /\ di_task = "none" /\ writer = "none"
        /\ \A k \in DOMAIN writes : ~writes[k].v[2]
        /\ pc \in {"arm_reraise", "arm_check", "finally", "done"} =>
             /\ out = <<FALSE, FALSE>>
             /\ \E j, k \in DOMAIN writes :
                  /\ j < k
                  /\ writes[j].site = "arm_on" /\ writes[j].ok
                  /\ writes[k].site = "arm_off" /\ writes[k].ok

\* C9 witness: an arming aborted by SIGINT has returned through the abort
\* branch.
C9_Witness ==
    /\ sigArm /\ pc = "done" /\ exc = "none" /\ faults = <<>>
    /\ "abort" \in Sites

\* The rows of chunk c, in the order they were emitted.
RowsOf(c) == SelectSeq(rows, LAMBDA r : r.chunk = c)

\* Chunk c has been read and main() is past its row loop.
ChunkOver(c) == c < ai_buf \/ (c = ai_buf /\ pc \notin {"di_read", "emit"})

\* The first Len rows of a chunk are well formed: in sample order, with the
\* running index, one DI snapshot and increasing timestamps.
RowsInOrder(c) ==
    LET R == RowsOf(c)
    IN  \A k \in DOMAIN R :
          /\ R[k].ai = (c - 1) * cfg.chunk + (k - 1)
          /\ R[k].di = R[1].di
          /\ k > 1 => R[k].ts > R[k - 1].ts

\* C10 (as claimed): every chunk read (here: in a run in which nothing has
\* failed) gives exactly chunk rows, in ascending sample order, all with the
\* same DI snapshot, and with timestamps strictly increasing and exactly
\* 1/rate (MicroPerSecond / rate microseconds) apart.
C10_ChunkRows ==
    \A c \in 1..ai_buf :
        (ChunkOver(c) /\ faults = <<>>) =>
            /\ Len(RowsOf(c)) = cfg.chunk
            /\ RowsInOrder(c)
            /\ \A k \in 2..Len(RowsOf(c)) :
                 (RowsOf(c)[k].ts - RowsOf(c)[k - 1].ts) * cfg.rate = MicroPerSecond

\* C10 (amended): every chunk whose DI read and row writes all succeed gives
\* exactly chunk rows, in ascending sample order, all with the same DI
\* snapshot; the printed timestamps are strictly increasing and 1/rate apart
\* to within less than one microsecond and one ulp: each is a double sum,
\* rounded to the ulp, and is printed cut to whole microseconds.  A chunk
\* whose DI read or row write raises leaves the rows written before.
C10_ChunkRowsAmended ==
    \A c \in 1..ai_buf :
        LET R == RowsOf(c)
        IN  /\ Len(R) <= cfg.chunk
            /\ RowsInOrder(c)
            /\ (ChunkOver(c) /\ Len(R) < cfg.chunk) =>
                   /\ c = ai_buf
                   /\ \E k \in DOMAIN faults : faults[k] \in {"di_read", "write_row"}
            /\ \A k \in 2..Len(R) :
                 LET e == (R[k].ts - R[k - 1].ts) * cfg.rate - MicroPerSecond
                 IN  Dist(e, 0) * MicroPerUlpDen
                         < (MicroPerUlpDen + MicroPerUlpNum) * cfg.rate

\* C10 witness: a whole chunk with a DI snapshot has been emitted at the rate
\* of 100 Hz, and its first two timestamps are 9999 microseconds apart, not
\* 10000.
C10_Witness ==
    /\ ai_buf >= 1 /\ ChunkOver(1) /\ Len(RowsOf(1)) = cfg.chunk
    /\ cfg.has_di /\ cfg.rate = 100
    /\ RowsOf(1)[2].ts - RowsOf(1)[1].ts = 9999

\* C11 (as claimed): row timestamps increase over the whole run: of any two
\* rows emitted one after the other, the last row of one chunk and the first
\* row of the next included, the later one has the greater timestamp, however
\* long the chunk reads took.
C11_TimestampsIncrease ==
    \A k \in 2..Len(rows) : rows[k].ts > rows[k - 1].ts

\* Nothing has failed and no SIGINT has been delivered.
NoTrouble == faults = <<>> /\ NotCancelled

\* main() is past the acquisition loop.
LoopLeft == pc \in {"shutdown", "close_writer", "finally", "done"}

\* The chunk duration chunk/rate, in the unit of the float arguments, is
\* ChunkNum / rate; the duration limit is k chunk durations.
ChunkNum == cfg.chunk * UlpPerSecond * ArgPerUlp
ExactMultiple == cfg.duration > 0 /\ (cfg.duration * cfg.rate) % ChunkNum = 0
ChunksInDuration == (cfg.duration * cfg.rate) \div ChunkNum

\* The printed time of the first row of chunk c, which tells chunk_start; for
\* a chunk just read, chunk_start is (or will be) the present time.
StartTs(c) ==
    IF RowsOf(c) # <<>> THEN RowsOf(c)[1].ts ELSE FormatTs(SampleTs(clock, 0))

\* Ideal pacing: the chunk duration is a whole number of ticks and the read
\* of chunk c returned c chunk durations after t0.
Paced ==
    /\ ChunkNum % (cfg.rate * ArgPerTick) = 0
    /\ \A c \in 1..ai_buf :
         StartTs(c) =
             FormatTs(SampleTs(t0 + c * (ChunkNum \div (cfg.rate * ArgPerTick)), 0))

\* The chunk reads returned a tick or more apart, the first one a tick or
\* more after t0.
EveryReadWaited ==
    \A c \in 1..ai_buf :
        StartTs(c) > (IF c = 1 THEN FormatTs(SampleTs(t0, 0)) ELSE StartTs(c - 1))

\* The least number of ticks that is not below the float d.
CeilTicks(d) == IF d <= 0 THEN 0 ELSE (d + ArgPerTick - 1) \div ArgPerTick

DurationLimit ==
    cfg.duration # 0 =>
        /\ pc \in {"read", "di_read", "emit"} => Ticks(now - t0) < cfg.duration
        /\ (LoopLeft /\ NoTrouble) =>
               /\ Ticks(now - t0) >= cfg.duration
               /\ Len(rows) = ai_buf * cfg.chunk
               /\ (Paced /\ ExactMultiple /\ ai_buf >= 1) => ai_buf = ChunksInDuration
        /\ (faults = <<>> /\ EveryReadWaited) => ai_buf <= CeilTicks(cfg.duration)

\* Every chunk read returns: main() does not stay in the read of line 556 for
\* ever.  (A run that has made MaxChunks reads stays in the next one.)
EveryReadReturns == []<>(pc # "read")

LoopBody == {"read", "di_read", "emit"}

\* C13: cancellation during logging is cooperative.  A SIGINT handled by
\* _sigint changes nothing but the stop flag; the flag takes effect at the
\* loop head only, where the loop is left and no further read is started; an
\* iteration under way runs to its end whether or not the flag is set (only a
\* failure ends it early), so that every loop head, and the exit of the loop,
\* finds chunk rows emitted for every chunk read.
C13_CooperativeCancel ==
    /\ [](pc \in {"loop_head", "shutdown"} => Len(rows) = ai_buf * cfg.chunk)
    /\ [][(handler = "log" /\ stop' # stop) =>
              (stop' /\ UNCHANGED <<cfg, pc, clock, hw, arming, timing, chunkst,
                                   exc, faults>>)]_vars
    /\ [][(pc = "loop_head" /\ stop) => pc' \in {"loop_head", "shutdown"}]_vars
    /\ [][(pc \in LoopBody /\ pc' \notin LoopBody) =>
              \/ pc' = "loop_head" /\ i = cfg.chunk
              \/ pc' = "finally" /\ Len(faults') > Len(faults)]_vars

\* C13 witness: the stop flag, clear when the iteration began, is set while
\* the rows of the chunk are being emitted, and the row loop goes on.
C13_Witness ==
    /\ stop /\ pc = "emit" /\ i = 1 /\ Len(rows) = cfg.chunk + 1

\* The igniter-ON and igniter-OFF writes that failed.
FailedSequencing ==
    {k \in DOMAIN writes : writes[k].site \in {"ign_on", "ign_off"} /\ ~writes[k].ok}

\* C14 (as claimed): when the igniter-ON or the igniter-OFF write raises, the
\* run is aborted: the iteration that made the write reads no chunk, and
\* main() goes to its cleanup.
C14_ActuationWriteErrorAborts ==
    \A k \in FailedSequencing :
        /\ ai_buf < writes[k].iter
        /\ pc \in {"finally", "done"}

\* C15 (as claimed): no error raised inside the acquisition loop is swallowed
\* silently: once an operation of the loop has failed without a report (of the
\* DO writes, the igniter-OFF write: the failure of the igniter-ON write is
\* printed), an exception is on its way to the caller and the loop is over.
C15_LoopErrorsSurface ==
    /\ \A k \in DOMAIN writes :
         (writes[k].site = "ign_off" /\ ~writes[k].ok) =>
             (exc # "none" /\ pc \in {"finally", "done"})
    /\ \A k \in DOMAIN faults :
         faults[k] \in {"ai_read", "di_read", "write_row", "flush"} =>
             (exc # "none" /\ pc \in {"finally", "done"})

\* C16 (as claimed): when the configuration of the AI or the DI task is
\* rejected, no discrete write with a true value has been made before.
C16_ConfigErrorBeforeOutputs ==
    (\E k \in DOMAIN faults : faults[k] \in {"ai_create", "ai_config", "di_create", "di_config"}) =>
        \A j \in DOMAIN writes : writes[j].v = <<FALSE, FALSE>>

\* C17 (as claimed): an abort request is idempotent: once the arming has been
\* aborted by a SIGINT, further SIGINTs lead to the same end as one: no error,
\* both outputs false, the DO task released.
C17_AbortIdempotent ==
    (pc = "done" /\ sigArm /\ faults = <<>>) =>
        /\ exc = "none"
        /\ out = <<FALSE, FALSE>>
        /\ do_task = "closed"

\* C20: with ignition enabled the first discrete write of the run is the
\* [false, false] write of the start, and it has succeeded before anything
\* else is done with the outputs or the acquisition: the buzzer-ON write
\* comes after it, and so do the arming wait and the creation of the row sink
\* and of the AI and DI tasks.
C20_SafeWriteFirst ==
    /\ writes # <<>> =>
           (writes[1].site = "start" /\ writes[1].v = <<FALSE, FALSE>>)
    /\ \A k \in DOMAIN writes :
           (k > 1 \/ writes[k].site # "start") => writes[1].ok
    /\ (cfg.ignite /\ (pc \in {"arm_on", "arm_wait"} \/ writer # "none"
                       \/ ai_task # "none" \/ di_task # "none")) =>
           (writes # <<>> /\ writes[1].ok)

\* C20 witness: the buzzer-ON write is the second write of a run that went
\* on to create its AI task.
C20_Witness ==
    /\ cfg.ignite /\ ai_task # "none"
    /\ Len(writes) >= 2 /\ writes[1].site = "start" /\ writes[1].ok
    /\ writes[2].site = "arm_on" /\ writes[2].ok

\* ------------------------------------------------------ expand_digital_spec
\* A line number as it is written: z leading zeros, then the decimal digits
\* of n.  int() reads the value, the f-string writes it without zeros.
Numerals == {<<z, n>> : z \in 0..1, n \in 0..MaxLine}
ParseInt(num) == num[2]
FormatInt(n) == <<0, n>>

\* The string port/line<num>.
Ports == {"port0"}
LineName(port, num) == [port |-> port, num |-> num]

\* Line 240: the tokens of the spec, split at the commas and stripped: a
\* token with a colon is a range port/lineA:B, any other is taken as it is.
\* The first bound of a range is written with or without a leading zero, the
\* second without.
Tokens ==
    [kind : {"range"}, port : Ports, a : Numerals,
     b : {FormatInt(n) : n \in 0..MaxLine}]
        \cup [kind : {"line"}, port : Ports, num : Numerals]
DigitalSpecs == UNION {[1..n -> Tokens] : n \in 0..MaxTokens}

\* Lines 242-248: the lines of a range token.
RangeLinesNoSwap(port, a, b) ==
    [k \in 1..(ParseInt(b) - ParseInt(a) + 1) |->
        LineName(port, FormatInt(ParseInt(a) + k - 1))]
RangeLines(port, a, b) ==
    LET x  == ParseInt(a)
        y  == ParseInt(b)
        lo == IF y < x THEN y ELSE x
        hi == IF y < x THEN x ELSE y
    IN  [k \in 1..(hi - lo + 1) |-> LineName(port, FormatInt(lo + k - 1))]

\* Lines 241-250: what one token adds to parts.
TokenParts(tok) ==
    IF tok.kind = "range" THEN RangeLines(tok.port, tok.a, tok.b)
    ELSE <<LineName(tok.port, tok.num)>>

\* Lines 239-250: parts, token by token.
RECURSIVE Parts(_)
Parts(tokens) ==
    IF tokens = <<>> THEN <<>>
    ELSE TokenParts(Head(tokens)) \o Parts(Tail(tokens))

\* Lines 251-254: the names of parts not seen before, in order.
RECURSIVE UniqFrom(_, _)
UniqFrom(parts, uniq) ==
    IF parts = <<>> THEN uniq
    ELSE UniqFrom(Tail(parts),
                  IF \E k \in DOMAIN uniq : uniq[k] = Head(parts)
                  THEN uniq ELSE Append(uniq, Head(parts)))

\* Lines 236-255.
expand_digital_spec(spec) ==
    IF spec = <<>> THEN <<>> ELSE UniqFrom(Parts(spec), <<>>)

\* Line 372: main() expands the --digital argument.
ExpandDigitalSpec ==
    /\ ~d_called
    /\ d_called' = TRUE
    /\ d_out' = expand_digital_spec(d_spec)
    /\ UNCHANGED <<d_spec, prog, calib>>

\* The arguments of a run that is not started.
IdleConfigs ==
    {c \in Configs : ~c.ignite /\ c.duration = 0 /\ ~c.has_di /\ c.rate = 128}

InitDigital ==
    /\ MainInit(IdleConfigs)
    /\ d_spec \in DigitalSpecs
    /\ d_called = FALSE
    /\ d_out = <<>>
    /\ CalibIdle

NextDigital == ExpandDigitalSpec

SpecDigital == InitDigital /\ [][NextDigital]_vars

\* The spec with the bounds of the range tokens at the positions S exchanged.
SwapBounds(spec, S) ==
    [k \in DOMAIN spec |->
        IF k \in S /\ spec[k].kind = "range"
        THEN [spec[k] EXCEPT !.a = spec[k].b, !.b = spec[k].a]
        ELSE spec[k]]

\* The place of the first occurrence of x in seq.
FirstPos(seq, x) ==
    CHOOSE p \in DOMAIN seq : seq[p] = x /\ \A q \in 1..(p - 1) : seq[q] # x

\* The least and the greatest of two numbers.
Min2(x, y) == IF x < y THEN x ELSE y
Max2(x, y) == IF x < y THEN y ELSE x

\* C18: every range token port/lineA:B gives the lines min(A,B)..max(A,B) in
\* ascending order, so that exchanging the bounds of any range tokens leaves
\* the result the same; the result has no duplicates, holds exactly the names
\* the tokens give, and keeps them in the order of their first occurrence.
C18_ExpandDigitalSpec ==
    d_called =>
        LET parts == Parts(d_spec)
        IN  /\ \A k \in DOMAIN d_spec :
                 d_spec[k].kind = "range" =>
                     LET L  == TokenParts(d_spec[k])
                         lo == Min2(ParseInt(d_spec[k].a), ParseInt(d_spec[k].b))
                         hi == Max2(ParseInt(d_spec[k].a), ParseInt(d_spec[k].b))
                     IN  /\ Len(L) = hi - lo + 1
                         /\ \A j \in DOMAIN L :
                              L[j] = LineName(d_spec[k].port, <<0, lo + j - 1>>)
            /\ \A S \in SUBSET DOMAIN d_spec :
                 expand_digital_spec(SwapBounds(d_spec, S)) = d_out
            /\ \A j, k \in DOMAIN d_out : j # k => d_out[j] # d_out[k]
            /\ {d_out[k] : k \in DOMAIN d_out} = {parts[k] : k \in DOMAIN parts}
            /\ \A j, k \in DOMAIN d_out :
                 j < k => FirstPos(parts, d_out[j]) < FirstPos(parts, d_out[k])

\* C18 witness: a descending range followed by an explicit token that names
\* one of its lines: the range came out ascending and the duplicate is gone.
C18_Witness ==
    /\ d_called /\ Len(d_spec) = 2
    /\ d_spec[1].kind = "range" /\ ParseInt(d_spec[1].a) > ParseInt(d_spec[1].b)
    /\ d_spec[2].kind = "line" /\ d_spec[2].num = <<0, ParseInt(d_spec[1].a)>>
    /\ Len(d_out) = Len(Parts(d_spec)) - 1
    /\ d_out[1].num = <<0, ParseInt(d_spec[1].b)>>

\* ---------------------------------------------------------- run_calibration
\* Floats.  A sample is a float, counted here in quanta; a float of the model
\* has FloatBits significant bits, and the quantum is its least spacing, so
\* that every sum and quotient is rounded as the hardware rounds it: to the
\* nearest float, ties to the even mantissa.
RECURSIVE BitLength(_)
BitLength(q) == IF q = 0 THEN 0 ELSE 1 + BitLength(q \div 2)

\* The distance of neighbouring floats at q.
Spacing(q) == IF q < 2 ^ FloatBits THEN 1 ELSE 2 ^ (BitLength(q) - FloatBits)

\* num/den rounded to a multiple of sp, ties to the even multiple.
RoundTo(num, den, sp) ==
    LET lower == ((num \div den) \div sp) * sp
        rem2  == 2 * (num - lower * den)
    IN  IF rem2 < sp * den THEN lower
        ELSE IF rem2 > sp * den THEN lower + sp
        ELSE IF (lower \div sp) % 2 = 0 THEN lower ELSE lower + sp

FloatRound(num, den) == RoundTo(num, den, Spacing(num \div den))
FloatAdd(a, b) == FloatRound(a + b, 1)
FloatDiv(a, n) == FloatRound(a, n)

\* Line 331: sum(h), from the left, starting at 0.
RECURSIVE Sum(_)
Sum(h) ==
    IF h = <<>> THEN 0
    ELSE FloatAdd(Sum(SubSeq(h, 1, Len(h) - 1)), h[Len(h)])

\* Line 331: the average of one history.
Average(h) == IF Len(h) > 0 THEN FloatDiv(Sum(h), Len(h)) ELSE 0

\* Line 338: the average as printed, with six decimals.
Show(x) == RoundTo(x, 1, ShowUnit)

\* Line 281: window_samples; round() rounds a half to the even integer.
\* calib_window is given in half-seconds.
WindowSamples(args) ==
    IF args.calib_window2 <= 0 THEN 1
    ELSE Max2(1, RoundTo(args.calib_window2 * args.rate_hw, 2, 1))

\* Lines 312 and 327: append to a deque(maxlen): at capacity the oldest
\* sample is dropped.
PushNoEvict(h, x, maxlen) == Append(h, x)
PushKeepOldest(h, x, maxlen) == IF Len(h) >= maxlen THEN h ELSE Append(h, x)
Push(h, x, maxlen) ==
    IF Len(h) >= maxlen THEN Append(Tail(h), x) ELSE Append(h, x)

\* The sample values: a small one, and the greatest even mantissa.
Samples == {1, 2 ^ FloatBits - 2}

\* The arguments of a calibration run, with one or two channels.
CalibArgs ==
    [calib_window2 : 0..MaxWindow2, rate_hw : 1..MaxRateHw, ch_count : {1, 2}]

Channels == 1..c_args.ch_count

\* Lines 325-327: a chunk is read (at these rates, max(1, int(rate_hw * 0.2))
\* is one sample per channel) and appended to the histories.
CalibFeed ==
    /\ Len(c_fed[1]) < MaxFeed
    /\ \E col \in [Channels -> Samples] :
         /\ c_hist' = [ch \in Channels |->
                          Push(c_hist[ch], col[ch], WindowSamples(c_args))]
         /\ c_fed' = [ch \in Channels |-> Append(c_fed[ch], col[ch])]
    /\ c_avgs' = <<>>
    /\ c_shown' = <<>>
    /\ UNCHANGED <<c_args, prog, digital>>

\* Lines 329-343: the print is due: the averages are computed and printed.
CalibDisplay ==
    /\ c_fed[1] # <<>>
    /\ c_avgs = <<>>
    /\ c_avgs' = [ch \in Channels |-> Average(c_hist[ch])]
    /\ c_shown' = [ch \in Channels |-> Show(Average(c_hist[ch]))]
    /\ UNCHANGED <<c_args, c_hist, c_fed, prog, digital>>

InitCalib ==
    /\ MainInit(IdleConfigs)
    /\ DigitalIdle
    /\ c_args \in CalibArgs
    /\ c_hist = [ch \in Channels |-> <<>>]
    /\ c_fed = [ch \in Channels |-> <<>>]
    /\ c_avgs = <<>>
    /\ c_shown = <<>>

NextCalib == CalibFeed \/ CalibDisplay

SpecCalib == InitCalib /\ [][NextCalib]_vars

\* The last window_samples samples fed to channel ch were all v.
Settled(ch, v) ==
    LET w == WindowSamples(c_args)
        n == Len(c_fed[ch])
    IN  n >= w /\ \A k \in (n - w + 1)..n : c_fed[ch][k] = v

\* C19 (as claimed): once window_samples consecutive samples of one value v
\* have been fed to a channel, whatever came before, the average displayed
\* for it equals v; and the average of an empty history is 0.
C19_AverageEqualsInput ==
    /\ Average(<<>>) = 0
    /\ c_avgs # <<>> =>
         \A ch \in Channels : \A v \in Samples :
             Settled(ch, v) => (c_avgs[ch] = v /\ c_shown[ch] = Show(v))

\* C19 (amended): once window_samples consecutive samples of one value v
\* have been fed to a channel, its history holds these samples only, whatever
\* came before, and the average is the float sum of window_samples times v
\* divided by window_samples: it is v itself when the multiples v, 2v, ...,
\* window_samples * v are all floats, and within window_samples spacings of v
\* otherwise; what is printed is that average rounded to the last printed
\* decimal.  The average of an empty history is 0.
C19_AverageWithinRounding ==
    /\ Average(<<>>) = 0
    /\ c_avgs # <<>> =>
         \A ch \in Channels : \A v \in Samples :
             Settled(ch, v) =>
                 LET w == WindowSamples(c_args)
                 IN  /\ c_hist[ch] = [k \in 1..w |-> v]
                     /\ c_avgs[ch] = Average([k \in 1..w |-> v])
                     /\ Dist(c_avgs[ch], v) <= w * Spacing(v)
                     /\ (\A j \in 1..w : FloatRound(j * v, 1) = j * v) =>
                            (c_avgs[ch] = v /\ c_shown[ch] = Show(v))
                     /\ c_shown[ch] = Show(c_avgs[ch])

\* C19 witness: on the second of two channels a window of three samples has
\* been filled with one value after a different one, and the average shown is
\* that value.
C19_Witness ==
    /\ c_avgs # <<>> /\ c_args # <<>> /\ c_args.ch_count = 2
    /\ WindowSamples(c_args) = 3 /\ Len(c_fed[2]) = 4
    /\ c_fed[2][1] # 1 /\ Settled(2, 1)
    /\ c_avgs[2] = 1

\* ------------------------------------------------- runs with long chunk reads
\* The same program, with ignition and a duration, in which a chunk read may
\* block for up to MaxLongRead ticks (the read of line 556 waits until the
\* chunk is sampled, up to its timeout of 10 s).
LongReadConfigs ==
    {c \in Configs : c.ignite /\ c.duration # 0 /\ ~c.has_di /\ c.rate = 128}

ReadChunkLong == ReadFor(0..MaxLongRead)

InitLongRead == MainInit(LongReadConfigs) /\ DigitalIdle /\ CalibIdle

NextLongRead ==
    \/ Sigint
    \/ DOCreate
    \/ EnterTry
    \/ ArmInstall
    \/ ArmBuzzerOn
    \/ ArmWaitIter
    \/ ArmWaitExit
    \/ ArmFinally
    \/ ArmReraise
    \/ ArmCheck
    \/ InstallSigint
    \/ OpenWriter
    \/ AICreate
    \/ DICreate
    \/ WriteHeader
    \/ StartTasks
    \/ LoopExit
    \/ Poll
    \/ ReadChunkLong
    \/ DIRead
    \/ EmitRow
    \/ EndChunk
    \/ StopTasks
    \/ CloseWriter
    \/ Finally

SpecLongRead == InitLongRead /\ [][NextLongRead]_vars

\* A sequence without its immediate repetitions.
RECURSIVE Changes(_)
Changes(seq) ==
    IF Len(seq) <= 1 THEN seq
    ELSE IF seq[1] = seq[2] THEN Changes(Tail(seq))
    ELSE <<seq[1]>> \o Changes(Tail(seq))

\* The levels <<buzzer, igniter>> the lines went through, from the first
\* write on.
LevelSeq == Changes([k \in DOMAIN writes |-> LevelLeft(writes[k])])

IsPrefix(a, b) == Len(a) <= Len(b) /\ a = SubSeq(b, 1, Len(a))

PulseSeq ==
    << <<FALSE, FALSE>>, <<TRUE, FALSE>>, <<FALSE, FALSE>>, <<FALSE, TRUE>>,
       <<FALSE, FALSE>> >>
NoPulseSeq == SubSeq(PulseSeq, 1, 3)

\* The run has ignition and a duration longer than stabilize_seconds +
\* pulse_seconds, and neither a cancellation nor a failure has occurred.
PlainIgnitionRun ==
    /\ cfg.ignite /\ NoTrouble
    /\ cfg.duration > Ticks(cfg.stabilize_seconds) + cfg.pulse_seconds

\* C21 (as claimed): in a run with ignition enabled, no cancellation (and no
\* failure) and a duration longer than stabilize_seconds + pulse_seconds, the
\* levels of (buzzer, igniter) over the run are exactly (false,false),
\* (true,false), (false,false), (false,true), (false,false), the igniter
\* going on at the first poll at or after t0 + stabilize_seconds, and both
\* lines are false at the end of the run.
C21_LevelSequence ==
    PlainIgnitionRun =>
        /\ IsPrefix(LevelSeq, PulseSeq)
        /\ (pc \in LoopBody /\ now >= fire_at[1]) => fired
        /\ pc = "done" => (LevelSeq = PulseSeq /\ out = <<FALSE, FALSE>>)

\* C21 (amended): in a run with ignition enabled and neither cancellation nor
\* failure, whatever the duration, the levels of (buzzer, igniter) follow the
\* order (false,false), (true,false), (false,false), (false,true),
\* (false,false) and no other combination occurs.  The igniter goes on at the
\* first iteration that starts at or after t0 + stabilize_seconds, and only
\* if such an iteration starts before the duration has elapsed: a run that
\* reaches the duration before it (a chunk read carries it from before
\* t0 + stabilize_seconds past the duration, or the first loop head is already
\* past the duration) ends after (false,false), (true,false), (false,false)
\* without ignition.
\* The igniter goes off at the first iteration at or after the end of the
\* pulse, or else by the cleanup write.  Both lines are false at the end.
C21_LevelSequenceAmended ==
    (cfg.ignite /\ NoTrouble) =>
        /\ IsPrefix(LevelSeq, PulseSeq)
        /\ (pc \in LoopBody /\ now >= fire_at[1]) => fired
        /\ fired =>
             \E k \in DOMAIN writes :
                 /\ writes[k].site = "ign_on" /\ writes[k].t >= fire_at[1]
                 /\ cfg.duration # 0 => Ticks(writes[k].t - t0) < cfg.duration
        /\ (pc \in LoopBody /\ out[2]) => Ticks(now) < fire_until[1]
        /\ pc = "done" =>
             /\ out = <<FALSE, FALSE>>
             /\ LevelSeq = IF fired THEN PulseSeq ELSE NoPulseSeq
             /\ ~fired => (cfg.duration # 0 /\ Ticks(now - t0) >= cfg.duration)

\* C21 witness: a run with a pulse of one tick went through the five levels
\* and is over.
C21_Witness ==
    /\ PlainIgnitionRun /\ pc = "done"
    /\ cfg.pulse_seconds = Ticks(1)
    /\ LevelSeq = PulseSeq
    /\ \E k \in DOMAIN writes : writes[k].site = "ign_off"

\* The last n elements of a sequence.
LastN(seq, n) == SubSeq(seq, Len(seq) - n + 1, Len(seq))

\* The history of channel ch is the window over all that was fed to it.
IsWindow(ch) ==
    LET w == WindowSamples(c_args)
        n == Len(c_fed[ch])
    IN  /\ Len(c_hist[ch]) = Min2(n, w)
        /\ Len(c_hist[ch]) <= w
        /\ c_hist[ch] = LastN(c_fed[ch], Min2(n, w))

\* C22: the history of every channel is a sliding window: after n pushes it
\* holds the most recent min(n, capacity) samples in arrival order and never
\* more than capacity; a push at capacity evicts the oldest sample and only
\* that one.  The capacity window_samples is at least 1, and it is 1 for a
\* window of 0 seconds: the average is then the last sample fed, and is
\* printed as that sample is.
C22_SlidingWindow ==
    /\ [](/\ \A a \in CalibArgs :
               /\ WindowSamples(a) >= 1
               /\ a.calib_window2 = 0 => WindowSamples(a) = 1
          /\ c_args # <<>> =>
               \A ch \in Channels :
                   /\ IsWindow(ch)
                   /\ (WindowSamples(c_args) = 1 /\ c_avgs # <<>>) =>
                          /\ c_avgs[ch] = Last(c_fed[ch])
                          /\ c_shown[ch] = Show(Last(c_fed[ch])))
    /\ [][c_args # <<>> =>
            \A ch \in Channels :
                (c_fed'[ch] # c_fed[ch] /\ Len(c_hist[ch]) = WindowSamples(c_args)) =>
                    /\ Len(c_hist'[ch]) = WindowSamples(c_args)
                    /\ c_hist'[ch] = Append(Tail(c_hist[ch]), Last(c_fed'[ch]))]_vars

\* C22 witness: a window of two or more samples has evicted a sample that
\* differs from the one just pushed, and the averages have been computed.
C22_Witness ==
    /\ c_args # <<>> /\ c_avgs # <<>>
    /\ \E ch \in Channels :
         LET w == WindowSamples(c_args)
             n == Len(c_fed[ch])
         IN  /\ w >= 2 /\ n > w
             /\ c_fed[ch][n - w] # c_fed[ch][n]
             /\ c_hist[ch] = LastN(c_fed[ch], w)

\* Levels of the two lines with at most one of them true.
AtMostOneTrue(v) == Len(v) = 2 /\ ~(v[1] /\ v[2])

\* C23: the buzzer and the igniter are never true together: every write made
\* anywhere in main(), failed or not, is one write of two levels
\* [buzzer, igniter] of which at most one is true, the lines change by these
\* writes only, and so in no state are both lines true.
C23_NeverBothTrue ==
    /\ AtMostOneTrue(out)
    /\ HistoryMatchesLines
    /\ \A k \in DOMAIN writes :
         /\ AtMostOneTrue(writes[k].v)
         /\ AtMostOneTrue(writes[k].prev)
         /\ AtMostOneTrue(LevelLeft(writes[k]))

\* C23 witness: the igniter is on in a run whose buzzer was on during arming.
C23_Witness ==
    /\ out = <<FALSE, TRUE>>
    /\ \E k \in DOMAIN writes : writes[k].ok /\ writes[k].v = <<TRUE, FALSE>>
    /\ AtMostOneTrue(out)

\* main() is inside the acquisition loop, and past it.
InLoop == pc \in {"loop_head"} \cup LoopBody
AfterLoop == pc \in {"shutdown", "close_writer", "finally", "done"}

\* This step adds nothing to the writes but writes of [false, false].
OnlyLowAdded ==
    /\ Len(writes') >= Len(writes)
    /\ SubSeq(writes', 1, Len(writes)) = writes
    /\ \A k \in (Len(writes) + 1)..Len(writes') : writes'[k].v = <<FALSE, FALSE>>

\* C24: once the stop flag is true at the loop test, the loop is left without
\* any write; the loop, for whatever reason it is left (stop flag, duration,
\* exception), is left for the shutdown or the cleanup and never entered
\* again; and from then on every write made is a write of [false, false]:
\* none sets the buzzer or the igniter true.
C24_NoTrueWriteAfterStop ==
    /\ [][(pc = "loop_head" /\ stop) =>
              (writes' = writes /\ pc' \in {"loop_head", "shutdown"})]_vars
    /\ [][(InLoop /\ ~InLoop') => (AfterLoop' /\ OnlyLowAdded)]_vars
    /\ [][AfterLoop => (AfterLoop' /\ OnlyLowAdded)]_vars
    /\ [](AfterLoop =>
              \A k \in DOMAIN writes :
                  writes[k].site = "final" =>
                      (k = Len(writes) /\ writes[k].v = <<FALSE, FALSE>>))

\* C24 witness: the loop saw the stop flag while the igniter was on, and the
\* run ended with the cleanup write of [false, false] as its last write.
C24_Witness ==
    /\ pc = "done" /\ stop /\ exc = "none" /\ faults = <<>>
    /\ writer = "closed"
    /\ \E k \in DOMAIN writes : writes[k].site = "ign_on" /\ k = Len(writes) - 1
    /\ Last(writes).site = "final" /\ Last(writes).prev = <<FALSE, TRUE>>
    /\ Last(writes).v = <<FALSE, FALSE>>

\* C25: the running sample index has neither gap nor duplicate over the run:
\* the k-th row handed to the row sink (counted from 0, across chunks) carries
\* index k; inside the row loop the rows written are samples_total + i; and
\* after every completed iteration, and from then on to the next chunk or to
\* the end of the loop, samples_total is the chunk size times the number of
\* chunks read, which is the number of rows written.
C25_SampleIndexGapFree ==
    /\ \A k \in DOMAIN rows : rows[k].idx = k - 1
    /\ samples_total % cfg.chunk = 0
    /\ pc = "emit" => Len(rows) = samples_total + i
    /\ pc \in {"loop_head", "read", "shutdown", "close_writer"} =>
         /\ samples_total = cfg.chunk * ai_buf
         /\ samples_total = Len(rows)
    /\ (pc = "di_read" /\ ai_buf >= 1) =>
         /\ samples_total = cfg.chunk * (ai_buf - 1)
         /\ samples_total = Len(rows)

\* C25 witness: two chunks have been read and written, and the last row
\* carries the index after those of the first chunk.
C25_Witness ==
    /\ pc = "loop_head" /\ ai_buf = 2
    /\ samples_total = 2 * cfg.chunk
    /\ Len(rows) = 2 * cfg.chunk
    /\ Last(rows).idx = 2 * cfg.chunk - 1
    /\ rows[cfg.chunk + 1].idx = cfg.chunk /\ rows[cfg.chunk + 1].chunk = 2

====
